---- MODULE Spec2Model ----
(***************************************************************************)
(* A model of tfnz.location.Location (the client session of a 20ft        *)
(* location) and of tfnz.volume.Volume: the node, volume, tunnel and      *)
(* endpoint registries, the caller operations on them, the push-event     *)
(* handlers and the teardown in disconnect().                              *)
(*                                                                         *)
(* Each operation of the class is one action.  An operation's outcome     *)
(* (return or the exception raised) and the calls it made on its          *)
(* collaborators (commands sent over the connection, tunnel.destroy(),    *)
(* endpoint.unpublish(), conn.disconnect()) are recorded in `last`.       *)
(*                                                                         *)
(* Spec is the session with these operations.  The other specifications   *)
(* each study one part with the rest of the state held still: the mount   *)
(* arguments of tf.py (SpecCli) and Volume.trees_intersect (SpecTrees),   *)
(* ranked_nodes (SpecRank), the heartbeat (SpecHeartbeat), construction   *)
(* and the first resource offer (SpecConnect), _wait_http_200 (SpecHttp), *)
(* _tunnel_onto against the proxy events (SpecProxy) and two overlapping  *)
(* disconnect() calls (SpecReentry), the last three statement by          *)
(* statement.                                                              *)
(***************************************************************************)
EXTENDS Naturals, Sequences, FiniteSets

\* ------------------------------------------------------------------ bounds
MaxTunnels == 2        \* Tunnel objects created in one behaviour
MaxVolumes == 2        \* Volume uuids the remote assigns in one behaviour
MaxClusters == 2       \* Cluster objects published in one behaviour
MaxObjects == 3        \* tunnels, volumes and clusters made in one behaviour, together
MaxNodes == 3          \* nodes a resource offer lists
MaxMounts == 3         \* mount arguments main accepts in one run
MaxCurrent == 2        \* paths in the list handed to trees_intersect
MaxTime == 130         \* seconds the clock runs after the session was made
MaxOffers == 2         \* resource offers the remote sends in one behaviour

\* ------------------------------------------------------------ value sets
None == "None"
Containers == {"c1", "c2"}
NodeIds == 1..MaxNodes
Stats == {1, 2}        \* the values a node reports for a stat
\* A Node of the registry: its pk and its stats['cpu'], stats['memory']
Node(pk, cpu, memory) == [pk |-> pk, cpu |-> cpu, memory |-> memory]
\* The node lists a resource offer carries to the session: no node, or two
NodeLists == { <<>>, <<Node(1, 1, 2), Node(2, 2, 1)>> }
Tags == {"t1"}
BadTag == "bad tag"

\* Domain names and fqdns are strings, modelled as sequences of characters
\* so that str.endswith is a suffix test on characters.
dom_my == <<"m", "y">>
dom_bmy == <<"b", ".", "m", "y">>
Domains == {dom_my, dom_bmy}
FQDNs == { <<"a", ".", "b", ".", "m", "y">>, <<"a", ".", "m", "y">>, <<"x", ".", "z">> }
\* The domain lists a resource offer carries here: no domain, or both
\* domains in either order
DomainLists == { <<>>, <<dom_my, dom_bmy>>, <<dom_bmy, dom_my>> }

TunnelIds == 1..MaxTunnels
VolumeIds == 1..MaxVolumes
ClusterIds == 1..MaxClusters

\* ------------------------------------------------------------------ state
VARIABLES
    conn,          \* self.conn: "open" (a Connection) or None
    ready,         \* Waitable readiness of the Location
    nodes,         \* self.nodes: the Nodes, in dict (insertion) order
    volumes,       \* self.volumes: the uuids in the TaggedCollection
    tunnels,       \* self.tunnels: the uuids registered (keys of the dict)
    endpoints,     \* self.endpoints: the domains, in dict (insertion) order
    clusters,      \* endpoint.clusters of the registered endpoint of each domain
    nTunnels,      \* Tunnel objects constructed so far (uuids 1..nTunnels)
    tcontainer,    \* tunnel.container of each Tunnel object
    destroyCalls,  \* times tunnel.destroy() was invoked on each Tunnel object:
                   \* 0, 1, or 2 for twice or more
    nVolumes,      \* volume uuids assigned so far by the remote
    vtag,          \* tag of each volume uuid
    remoteVols,    \* the volumes the remote holds for this user
    nClusters,     \* Cluster objects published so far
    published,     \* clusters the remote currently has published for the session
    disconnected,  \* history: a disconnect() ran to its last statement
    last           \* the last operation: name, arguments, outcome, calls made

\* The registries of the session
registries == <<nodes, volumes, tunnels, endpoints, clusters>>

\* Everything above but the record of the last operation
session == <<conn, ready, nodes, volumes, tunnels, endpoints, clusters, nTunnels,
             tcontainer, destroyCalls, nVolumes, vtag, remoteVols, nClusters,
             published, disconnected>>

\* The state of the parts of the program that are studied one at a time,
\* each in a specification of its own.
VARIABLES
    \* tf.py main, the mount arguments, and Volume.trees_intersect
    mount_points,  \* main's mount_points: the mount strings accepted so far
    mainPc,        \* where main is: "mounts", "launch", "return 1", "KeyError"
    current,       \* trees_intersect's argument current, in iteration order
    proposed,      \* trees_intersect's argument proposed
    intersection,  \* what trees_intersect returned: <<>> for None, or <<longer, shorter>>
    \* Location.ranked_nodes
    ranking,       \* the list the last ranked_nodes call returned
    last_best_nodes, \* self.last_best_nodes
    \* Location._heartbeat
    now,           \* time.time(), in seconds
    last_heartbeat, \* self.last_heartbeat
    heartbeats,    \* history: the times at which a heartbeat command was sent
    \* Location.__init__ and the first resource offer, statement by statement
    initPc,        \* where __init__ is: "start", "wait_until_ready", "returned"
    offerPc,       \* statements of _resource_offer the loop thread has run (0: none)
    offer,         \* the payload of the offer being handled
    applied,       \* history: the offers that have assigned each registry
    \* Location._wait_http_200, turn by turn of its polling loop
    httpPc,        \* "idle", "resolved", "polling", "returned" or "ValueError"
    addr,          \* what socket.gethostbyname(fqdn) returned
    tnl,           \* the tunnel made by the call (0: none)
    attempts_remaining, \* the local attempts_remaining
    requests,      \* history: the HTTP requests the call has made
    \* Location._tunnel_onto statement by statement, and the proxy events
    ontoPc,        \* statements of _tunnel_onto the caller has run for the
                   \* Tunnel it constructed last (3: it is not in _tunnel_onto)
    connecting,    \* history: the tunnels whose connect() has been started
    \* two disconnect() calls, statement by statement
    dthread,       \* per calling thread: pc, what is left of its loops, exception
    unpublishCalls, \* history: times endpoint.unpublish was invoked, per cluster
    closeCalls,    \* history: times conn.disconnect() was invoked
    \* Location._destroy_tunnel, statement by statement
    destroying     \* the tunnel whose destroy() the caller has invoked and
                   \* which it has not removed from the registry yet (0: none)

cliVars == <<mount_points, mainPc, current, proposed, intersection>>
rankVars == <<ranking, last_best_nodes>>
heartbeatVars == <<now, last_heartbeat, heartbeats>>
connectVars == <<initPc, offerPc, offer, applied>>
httpVars == <<httpPc, addr, tnl, attempts_remaining, requests>>
proxyVars == <<ontoPc, connecting>>
reentryVars == <<dthread, unpublishCalls, closeCalls>>
destroyVars == <<destroying>>

aside == <<cliVars, rankVars, heartbeatVars, connectVars, httpVars, proxyVars,
           reentryVars, destroyVars>>

\* What each of these parts leaves alone
asideCli ==
    <<rankVars, heartbeatVars, connectVars, httpVars, proxyVars, reentryVars, destroyVars>>
asideRank ==
    <<cliVars, heartbeatVars, connectVars, httpVars, proxyVars, reentryVars, destroyVars>>
asideHeartbeat ==
    <<cliVars, rankVars, connectVars, httpVars, proxyVars, reentryVars, destroyVars>>
asideConnect ==
    <<cliVars, rankVars, heartbeatVars, httpVars, proxyVars, reentryVars, destroyVars>>
asideHttp ==
    <<cliVars, rankVars, heartbeatVars, connectVars, proxyVars, reentryVars, destroyVars>>
asideProxy ==
    <<cliVars, rankVars, heartbeatVars, connectVars, httpVars, reentryVars, destroyVars>>
asideReentry ==
    <<cliVars, rankVars, heartbeatVars, connectVars, httpVars, proxyVars, destroyVars>>
asideDestroy ==
    <<cliVars, rankVars, heartbeatVars, connectVars, httpVars, proxyVars, reentryVars>>

vars == <<session, last, aside>>

\* The calling threads of disconnect(): the main thread and the event loop
Threads == {"main", "loop"}

\* The parts studied apart, before they have done anything
CliIdle ==
    /\ mount_points = {}
    /\ mainPc = "mounts"
    /\ current = <<>>
    /\ proposed = <<>>
    /\ intersection = <<>>

RankIdle ==
    /\ ranking = <<>>
    /\ last_best_nodes = None

HeartbeatIdle ==
    /\ now = 0
    /\ last_heartbeat = 0
    /\ heartbeats = <<>>

ConnectIdle ==
    /\ initPc = "returned"
    /\ offerPc = 0
    /\ offer = [n |-> 1, domains |-> <<>>, nodes |-> <<>>]
    /\ applied = [r \in {"endpoints", "nodes", "volumes"} |-> 1]

HttpIdle ==
    /\ httpPc = "idle"
    /\ addr = None
    /\ tnl = 0
    /\ attempts_remaining = 0
    /\ requests = 0

ProxyIdle ==
    /\ ontoPc = 3
    /\ connecting = {}

DestroyIdle == destroying = 0

ReentryIdle ==
    /\ dthread = [t \in Threads |->
                    [pc |-> "idle", endpoints |-> <<>>, clusters |-> <<>>,
                     tunnels |-> <<>>, raised |-> None]]
    /\ unpublishCalls = [k \in ClusterIds |-> 0]
    /\ closeCalls = 0

AsideInit ==
    /\ CliIdle /\ RankIdle /\ HeartbeatIdle /\ ConnectIdle /\ HttpIdle
    /\ ProxyIdle /\ ReentryIdle /\ DestroyIdle

\* The record kept of the last operation.  a: a numeric argument (a tunnel or
\* volume uuid, 0 for none); s: a string argument (a container, a tag, None);
\* fqdn: a name argument; result: "ok" or the exception raised; calls: the
\* calls made on collaborators, as <<name, uuid>> pairs.
Outcome(op, a, s, fqdn, result, calls) ==
    [op |-> op, a |-> a, s |-> s, fqdn |-> fqdn, result |-> result, calls |-> calls]

\* ---------------------------------------------------------------- helpers
Min(S) == CHOOSE x \in S : \A y \in S : x <= y

\* The elements of a set of uuids in dict order.  Uuids are numbered in the
\* order the objects were made, which is the order they were inserted.
RECURSIVE InOrder(_)
InOrder(S) == IF S = {} THEN <<>> ELSE <<Min(S)>> \o InOrder(S \ {Min(S)})

\* One more invocation of tunnel.destroy(): the count of a tunnel is kept
\* exactly up to one, and a second or later invocation as 2.
Again(n) == IF n = 0 THEN 1 ELSE 2

\* str.endswith
endswith(s, suffix) ==
    /\ Len(suffix) <= Len(s)
    /\ SubSeq(s, Len(s) - Len(suffix) + 1, Len(s)) = suffix

NoClusters == [d \in Domains |-> {}]

\* ------------------------------------------------------------------- Init
\* The state when Location.__init__ returns: it waits for the first
\* resource offer, so nodes and endpoints hold that offer's contents, the
\* node list ns and the domain list ds.
AfterOffer(ns, ds) ==
    /\ conn = "open"
    /\ ready = TRUE
    /\ nodes = ns
    /\ endpoints = ds
    /\ clusters = NoClusters
    /\ volumes = {}
    /\ tunnels = {}
    /\ nTunnels = 0
    /\ tcontainer = [t \in TunnelIds |-> None]
    /\ destroyCalls = [t \in TunnelIds |-> 0]
    /\ nVolumes = 0
    /\ vtag = [v \in VolumeIds |-> None]
    /\ remoteVols = {}
    /\ nClusters = 0
    /\ published = {}
    /\ disconnected = FALSE
    /\ last = Outcome("init", 0, None, <<>>, "ok", {})

Init == \E ns \in NodeLists, ds \in DomainLists : AfterOffer(ns, ds)

\* ------------------------------------------------------- tunnel creation
\* Location._tunnel_onto.  outcome: "ok" when Tunnel(...) and tunnel.connect()
\* both return, "connect" when tunnel.connect() raises, "construct" when the
\* constructor raises (it is handed self.conn, which is None after
\* disconnect; with a Connection it returns).
_tunnel_onto(container, outcome) ==
    /\ nTunnels < MaxTunnels
    /\ nTunnels + nVolumes + nClusters < MaxObjects
    /\ outcome = "construct" => conn = None
    /\ IF outcome = "construct"
       THEN /\ last' = Outcome("_tunnel_onto", 0, container, <<>>, "error", {})
            /\ UNCHANGED <<nTunnels, tcontainer, tunnels>>
       ELSE LET uuid == nTunnels + 1 IN
            /\ nTunnels' = uuid
            /\ tcontainer' = [tcontainer EXCEPT ![uuid] = container]
            /\ tunnels' = tunnels \cup {uuid}
            /\ last' = Outcome("_tunnel_onto", uuid, container, <<>>,
                               IF outcome = "ok" THEN "ok" ELSE "error",
                               {<<"tunnel.connect", uuid>>})
    /\ UNCHANGED <<conn, ready, nodes, volumes, endpoints, clusters, destroyCalls,
                   nVolumes, vtag, remoteVols, nClusters, published, disconnected>>

\* ---------------------------------------------------- tunnel destruction
\* Mutant of guard_fails: the ownership check is missing.
guard_never_fails(tunnel, container) == FALSE

\* The container guard of _destroy_tunnel: a container was passed and it is
\* not the tunnel's.
guard_fails(tunnel, container) ==
    container # None /\ tcontainer[tunnel] # container

\* Location._destroy_tunnel.  tunnel: a Tunnel object made earlier;
\* container: the guard, or None.  `del self.tunnels[uuid]` raises KeyError
\* when the uuid is not registered.
_destroy_tunnel(tunnel, container) ==
    /\ tunnel \in 1..nTunnels
    /\ IF guard_fails(tunnel, container)
       THEN /\ last' = Outcome("_destroy_tunnel", tunnel, container, <<>>, "ValueError", {})
            /\ UNCHANGED <<tunnels, destroyCalls>>
       ELSE /\ destroyCalls' = [destroyCalls EXCEPT ![tunnel] = Again(@)]
            /\ tunnels' = tunnels \ {tunnel}
            /\ last' = Outcome("_destroy_tunnel", tunnel, container, <<>>,
                               IF tunnel \in tunnels THEN "ok" ELSE "KeyError",
                               {<<"tunnel.destroy", tunnel>>})
    /\ UNCHANGED <<conn, ready, nodes, volumes, endpoints, clusters, nTunnels,
                   tcontainer, nVolumes, vtag, remoteVols, nClusters, published, disconnected>>

\* ---------------------------------------------------------------- volumes
\* Taggable.valid_tag: None and well-formed tags pass, anything else raises.
valid_tag(tag) == tag \in Tags \cup {None}

\* The remote's create_volume: a tag is unique per owner, so a tag some
\* volume of the user already carries is rejected.
remote_rejects_create(tag) ==
    tag # None /\ \E v \in remoteVols : vtag[v] = tag

\* Mutant of create_volume: the Volume is built and registered whatever the
\* remote answered.
create_volume_registers_anyway(tag) ==
    /\ IF ~valid_tag(tag)
       THEN /\ last' = Outcome("create_volume", 0, tag, <<>>, "ValueError", {})
            /\ UNCHANGED <<volumes, nVolumes, vtag, remoteVols>>
       ELSE IF conn = None
       THEN /\ last' = Outcome("create_volume", 0, tag, <<>>, "AttributeError", {})
            /\ UNCHANGED <<volumes, nVolumes, vtag, remoteVols>>
       ELSE LET uuid == nVolumes + 1 IN
            /\ nVolumes < MaxVolumes
            /\ nTunnels + nVolumes + nClusters < MaxObjects
            /\ nVolumes' = uuid
            /\ vtag' = [vtag EXCEPT ![uuid] = tag]
            /\ remoteVols' = IF remote_rejects_create(tag) THEN remoteVols
                             ELSE remoteVols \cup {uuid}
            /\ volumes' = volumes \cup {uuid}
            /\ last' = Outcome("create_volume", uuid, tag, <<>>,
                               IF remote_rejects_create(tag) THEN "RemoteError" ELSE "ok",
                               {<<"create_volume", 0>>})
    /\ UNCHANGED <<conn, ready, nodes, tunnels, endpoints, clusters, nTunnels,
                   tcontainer, destroyCalls, nClusters, published, disconnected>>

\* Location.create_volume
create_volume(tag) ==
    /\ IF ~valid_tag(tag)
       THEN /\ last' = Outcome("create_volume", 0, tag, <<>>, "ValueError", {})
            /\ UNCHANGED <<volumes, nVolumes, vtag, remoteVols>>
       ELSE IF conn = None
       THEN /\ last' = Outcome("create_volume", 0, tag, <<>>, "AttributeError", {})
            /\ UNCHANGED <<volumes, nVolumes, vtag, remoteVols>>
       ELSE IF remote_rejects_create(tag)
       THEN /\ last' = Outcome("create_volume", 0, tag, <<>>, "RemoteError",
                               {<<"create_volume", 0>>})
            /\ UNCHANGED <<volumes, nVolumes, vtag, remoteVols>>
       ELSE LET uuid == nVolumes + 1 IN
            /\ nVolumes < MaxVolumes
            /\ nTunnels + nVolumes + nClusters < MaxObjects
            /\ nVolumes' = uuid
            /\ vtag' = [vtag EXCEPT ![uuid] = tag]
            /\ remoteVols' = remoteVols \cup {uuid}
            /\ volumes' = volumes \cup {uuid}
            /\ last' = Outcome("create_volume", uuid, tag, <<>>, "ok",
                               {<<"create_volume", 0>>})
    /\ UNCHANGED <<conn, ready, nodes, tunnels, endpoints, clusters, nTunnels,
                   tcontainer, destroyCalls, nClusters, published, disconnected>>

\* Location.destroy_volume.  volume: the uuid of a Volume object made
\* earlier, or 0 for an argument that is not a Volume.  The remote rejects
\* a uuid it does not hold; TaggedCollection.remove of a missing volume raises.
destroy_volume(volume) ==
    /\ volume \in 0..nVolumes
    /\ IF volume = 0
       THEN /\ last' = Outcome("destroy_volume", volume, None, <<>>, "TypeError", {})
            /\ UNCHANGED <<volumes, remoteVols>>
       ELSE IF conn = None
       THEN /\ last' = Outcome("destroy_volume", volume, None, <<>>, "AttributeError", {})
            /\ UNCHANGED <<volumes, remoteVols>>
       ELSE IF volume \notin remoteVols
       THEN /\ last' = Outcome("destroy_volume", volume, None, <<>>, "RemoteError",
                               {<<"destroy_volume", volume>>})
            /\ UNCHANGED <<volumes, remoteVols>>
       ELSE /\ remoteVols' = remoteVols \ {volume}
            /\ volumes' = volumes \ {volume}
            /\ last' = Outcome("destroy_volume", volume, None, <<>>,
                               IF volume \in volumes THEN "ok" ELSE "KeyError",
                               {<<"destroy_volume", volume>>})
    /\ UNCHANGED <<conn, ready, nodes, tunnels, endpoints, clusters, nTunnels,
                   tcontainer, destroyCalls, nVolumes, vtag, nClusters, published, disconnected>>

\* -------------------------------------------------------------- endpoints
\* Mutant of endpoint_for: the longest matching domain wins.
endpoint_for_longest(fqdn) ==
    LET hits == {i \in 1..Len(endpoints) : endswith(fqdn, endpoints[i])}
    IN IF hits = {} THEN None
       ELSE endpoints[CHOOSE i \in hits : \A j \in hits : Len(endpoints[j]) <= Len(endpoints[i])]

\* Location.endpoint_for: the domain of the first registered endpoint whose
\* domain fqdn ends with, or None when the loop finds none (ValueError).
endpoint_for(fqdn) ==
    LET hits == {i \in 1..Len(endpoints) : endswith(fqdn, endpoints[i])}
    IN IF hits = {} THEN None ELSE endpoints[Min(hits)]

\* WebEndpoint.publish on a registered endpoint: the cluster joins
\* endpoint.clusters and the remote publishes it.
publish(domain, cluster) ==
    /\ clusters' = [clusters EXCEPT ![domain] = @ \cup {cluster}]
    /\ published' = published \cup {cluster}
    /\ nClusters' = cluster

\* The cli's publication of a new cluster (tf.py): find the endpoint for the
\* name, publish on it.
tf_publish(fqdn) ==
    /\ nClusters < MaxClusters
    /\ nTunnels + nVolumes + nClusters < MaxObjects
    /\ LET ep == endpoint_for(fqdn) IN
       IF ep = None
       THEN /\ last' = Outcome("endpoint_for", 0, None, fqdn, "ValueError", {})
            /\ UNCHANGED <<clusters, published, nClusters>>
       ELSE /\ publish(ep, nClusters + 1)
            /\ last' = Outcome("publish", nClusters + 1, None, fqdn, "ok",
                               {<<"publish", nClusters + 1>>})
    /\ UNCHANGED <<conn, ready, nodes, volumes, tunnels, endpoints, nTunnels,
                   tcontainer, destroyCalls, nVolumes, vtag, remoteVols, disconnected>>

\* WebEndpoint.unpublish, called by the owner of the endpoint object the
\* cluster was published on (registered or not): the remote drops the
\* cluster and it leaves endpoint.clusters.
unpublish(cluster) ==
    /\ conn = "open"
    /\ cluster \in published
    /\ published' = published \ {cluster}
    /\ clusters' = [d \in Domains |-> clusters[d] \ {cluster}]
    /\ last' = Outcome("unpublish", cluster, None, <<>>, "ok", {<<"unpublish", cluster>>})
    /\ UNCHANGED <<conn, ready, nodes, volumes, tunnels, endpoints, nTunnels,
                   tcontainer, destroyCalls, nVolumes, vtag, remoteVols, nClusters, disconnected>>

\* ------------------------------------------------------------ push events
\* Mutant of _resource_offer: the volumes of the payload are added to the
\* registry, and those it held stay.
_resource_offer_merges(domains, offered) ==
    /\ conn = "open"
    /\ endpoints' = domains
    /\ clusters' = NoClusters
    /\ nodes' = offered
    /\ volumes' = volumes \cup remoteVols
    /\ ready' = TRUE
    /\ last' = Outcome("_resource_offer", 0, None, <<>>, "ok", {})
    /\ UNCHANGED <<conn, tunnels, nTunnels, tcontainer, destroyCalls, nVolumes,
                   vtag, remoteVols, nClusters, published, disconnected>>

\* Location._resource_offer.  domains, offered: the payload's domains and
\* node ids; the payload's volumes are the volumes the remote holds.
_resource_offer(domains, offered) ==
    /\ conn = "open"
    /\ endpoints' = domains
    /\ clusters' = NoClusters
    /\ nodes' = offered
    /\ volumes' = remoteVols
    /\ ready' = TRUE
    /\ last' = Outcome("_resource_offer", 0, None, <<>>, "ok", {})
    /\ UNCHANGED <<conn, tunnels, nTunnels, tcontainer, destroyCalls, nVolumes,
                   vtag, remoteVols, nClusters, published, disconnected>>

\* ------------------------------------------------------------- disconnect
\* The clusters disconnect() unpublishes, in the order of its two loops:
\* endpoints in dict order, each endpoint's clusters in dict order.
RECURSIVE UnpublishOrder(_)
UnpublishOrder(i) ==
    IF i > Len(endpoints) THEN <<>>
    ELSE InOrder(clusters[endpoints[i]]) \o UnpublishOrder(i + 1)

\* Mutant of clear_handle: the handle is left in place.
keep_handle == UNCHANGED conn

\* `self.conn = None`, the statement of disconnect() that makes a later call
\* return at once.
clear_handle == conn' = None

\* Location.disconnect.  uFail: the position in the unpublish loop of the
\* endpoint.unpublish() that raises (0: none does); tFail: the position in
\* the tunnel loop of the tunnel.destroy() that raises (0: none does).
\* self.volumes is not touched.
disconnect(uFail, tFail) ==
    IF conn = None
    THEN /\ uFail = 0 /\ tFail = 0
         /\ last' = Outcome("disconnect", 0, None, <<>>, "ok", {})
         /\ UNCHANGED <<conn, ready, nodes, volumes, tunnels, endpoints, clusters,
                        nTunnels, tcontainer, destroyCalls, nVolumes, vtag,
                        remoteVols, nClusters, published, disconnected>>
    ELSE LET U == UnpublishOrder(1)
             T == InOrder(tunnels)
             unpublished == {U[i] : i \in 1..(IF uFail = 0 THEN Len(U) ELSE uFail - 1)}
             destroyed == {T[i] : i \in 1..(IF tFail = 0 THEN Len(T) ELSE tFail)}
             sentU == {<<"unpublish", k>> : k \in unpublished}
             sentT == {<<"tunnel.destroy", t>> : t \in destroyed}
         IN
         /\ uFail \in 0..Len(U)
         /\ tFail \in 0..Len(T)
         /\ uFail > 0 => tFail = 0
         /\ published' = published \ unpublished
         /\ IF uFail > 0
            THEN \* endpoint.unpublish raised: the exception leaves disconnect
                 /\ clusters' = [d \in Domains |-> clusters[d] \ unpublished]
                 /\ last' = Outcome("disconnect", 0, None, <<>>, "error", sentU)
                 /\ UNCHANGED <<conn, nodes, tunnels, endpoints, destroyCalls,
                                disconnected>>
            ELSE /\ endpoints' = <<>>
                 /\ clusters' = NoClusters
                 /\ destroyCalls' = [t \in TunnelIds |->
                        IF t \in destroyed THEN Again(destroyCalls[t])
                        ELSE destroyCalls[t]]
                 /\ IF tFail > 0
                    THEN \* tunnel.destroy raised: the exception leaves disconnect
                         /\ last' = Outcome("disconnect", 0, None, <<>>, "error",
                                            sentU \cup sentT)
                         /\ UNCHANGED <<conn, nodes, tunnels, disconnected>>
                    ELSE /\ tunnels' = {}
                         /\ clear_handle
                         /\ nodes' = <<>>
                         /\ disconnected' = TRUE
                         /\ last' = Outcome("disconnect", 0, None, <<>>, "ok",
                                            sentU \cup sentT \cup {<<"conn.disconnect", 0>>})
         /\ UNCHANGED <<ready, volumes, nTunnels, tcontainer, nVolumes, vtag,
                        remoteVols, nClusters>>

\* ------------------------------------------------------------------ reads
\* Operations that read the registries and change nothing: whether the call
\* raises is a function of the state.

\* Location.ranked_nodes raises ValueError when the location has no nodes.
ranked_nodes_raises == nodes = <<>>

\* Location.all_volumes returns list(self.volumes.values()): no path raises.
all_volumes_raises == FALSE

\* Location.volume: TaggedCollection.get raises for a key it does not hold.
volume_raises(key) == key \notin volumes

\* Location.endpoint_for raises ValueError when no domain matches.
endpoint_for_raises(fqdn) == endpoint_for(fqdn) = None

\* Volume.snapshot and Volume.rollback.  connection() is a weak reference to
\* the Connection: live while the session holds it; after disconnect() has
\* dropped it, alive says whether another holder still keeps the object.
\* A dead reference returns None, and None.send_cmd raises AttributeError.
volume_send(op, cmd, vol, alive) ==
    /\ vol \in 1..nVolumes
    /\ conn = "open" => alive
    /\ last' = IF alive THEN Outcome(op, vol, None, <<>>, "ok", {<<cmd, vol>>})
               ELSE Outcome(op, vol, None, <<>>, "AttributeError", {})
    /\ UNCHANGED <<conn, ready, nodes, volumes, tunnels, endpoints, clusters,
                   nTunnels, tcontainer, destroyCalls, nVolumes, vtag, remoteVols,
                   nClusters, published, disconnected>>

snapshot(vol, alive) == volume_send("snapshot", "snapshot_volume", vol, alive)

rollback(vol, alive) == volume_send("rollback", "rollback_volume", vol, alive)

\* ------------------------------------------------------------------- Next
Next ==
    \/ \E c \in Containers, o \in {"ok", "connect", "construct"} : _tunnel_onto(c, o) /\ UNCHANGED aside
    \/ \E t \in TunnelIds, c \in Containers \cup {None} : _destroy_tunnel(t, c) /\ UNCHANGED aside
    \/ \E tag \in Tags \cup {None, BadTag} : create_volume(tag) /\ UNCHANGED aside
    \/ \E v \in 0..MaxVolumes : destroy_volume(v) /\ UNCHANGED aside
    \/ \E f \in FQDNs : tf_publish(f) /\ UNCHANGED aside
    \/ \E k \in ClusterIds : unpublish(k) /\ UNCHANGED aside
    \/ \E d \in DomainLists, n \in NodeLists : _resource_offer(d, n) /\ UNCHANGED aside
    \/ \E u \in 0..MaxClusters, t \in 0..MaxTunnels : disconnect(u, t) /\ UNCHANGED aside
    \/ \E v \in VolumeIds, alive \in BOOLEAN : snapshot(v, alive) /\ UNCHANGED aside
    \/ \E v \in VolumeIds, alive \in BOOLEAN : rollback(v, alive) /\ UNCHANGED aside

\* The session as __init__ returns it, the parts studied apart at rest
InitSession == Init /\ AsideInit

Spec == InitSession /\ [][Next]_vars

\* ------------------------------------------------- the endpoints, apart
\* The operations that read and write the endpoint registry
NextEndpoints ==
    \/ \E f \in FQDNs : tf_publish(f) /\ UNCHANGED aside
    \/ \E k \in ClusterIds : unpublish(k) /\ UNCHANGED aside
    \/ \E d \in DomainLists, n \in NodeLists : _resource_offer(d, n) /\ UNCHANGED aside

SpecEndpoints == InitSession /\ [][NextEndpoints]_vars

\* ------------------------------------------------------------ mount paths
\* Paths are strings, modelled as sequences of characters.

\* os.getcwd() of the process
cwd == <<"/", "a">>

\* The mount points a user passes: /a  /a/  /a/b  /ab  /b  /a/../b  //a  b  /
RawPaths ==
    { <<"/", "a">>, <<"/", "a", "/">>, <<"/", "a", "/", "b">>, <<"/", "a", "b">>,
      <<"/", "b">>, <<"/", "a", "/", ".", ".", "/", "b">>, <<"/", "/", "a">>,
      <<"b">>, <<"/">> }

\* str.startswith
startswith(s, prefix) ==
    /\ Len(prefix) <= Len(s)
    /\ SubSeq(s, 1, Len(prefix)) = prefix

\* str.split(sep) for a separator of one character
RECURSIVE split(_, _)
split(s, sep) ==
    IF \E i \in 1..Len(s) : s[i] = sep
    THEN LET i == Min({j \in 1..Len(s) : s[j] = sep})
         IN <<SubSeq(s, 1, i - 1)>> \o split(SubSeq(s, i + 1, Len(s)), sep)
    ELSE <<s>>

\* sep.join(comps)
RECURSIVE join(_, _)
join(sep, comps) ==
    IF comps = <<>> THEN <<>>
    ELSE IF Len(comps) = 1 THEN comps[1]
    ELSE comps[1] \o <<sep>> \o join(sep, Tail(comps))

\* The loop of posixpath.normpath over the components of a path
RECURSIVE norm_comps(_, _, _)
norm_comps(comps, new_comps, initial_slashes) ==
    IF comps = <<>> THEN new_comps
    ELSE LET comp == Head(comps)
             n == Len(new_comps)
         IN
         IF comp = <<>> \/ comp = <<".">>
         THEN norm_comps(Tail(comps), new_comps, initial_slashes)
         ELSE IF \/ comp # <<".", ".">>
                 \/ initial_slashes = 0 /\ n = 0
                 \/ n > 0 /\ new_comps[n] = <<".", ".">>
         THEN norm_comps(Tail(comps), Append(new_comps, comp), initial_slashes)
         ELSE IF n > 0
         THEN norm_comps(Tail(comps), SubSeq(new_comps, 1, n - 1), initial_slashes)
         ELSE norm_comps(Tail(comps), new_comps, initial_slashes)

\* posixpath.normpath: two leading slashes are kept, three or more are one
normpath(path) ==
    IF path = <<>> THEN <<".">>
    ELSE LET initial_slashes ==
                 IF ~startswith(path, <<"/">>) THEN 0
                 ELSE IF startswith(path, <<"/", "/">>) /\ ~startswith(path, <<"/", "/", "/">>)
                 THEN 2
                 ELSE 1
             body == join("/", norm_comps(split(path, "/"), <<>>, initial_slashes))
             out == [i \in 1..initial_slashes |-> "/"] \o body
         IN IF out = <<>> THEN <<".">> ELSE out

\* posixpath.abspath: a relative path is joined to the working directory
abspath(path) ==
    IF startswith(path, <<"/">>) THEN normpath(path)
    ELSE normpath(cwd \o <<"/">> \o path)

\* --------------------------------------------------- Volume.trees_intersect
\* trees_intersect returns None, modelled as the empty tuple, or a pair
NoIntersection == <<>>

\* Mutant of subtree: only a proposed path below a current one is reported.
subtree_below_only(p, c) ==
    IF Len(p) > Len(c)
    THEN IF SubSeq(p, 1, Len(c)) = c THEN <<p, c>> ELSE NoIntersection
    ELSE NoIntersection

\* The body of the loop of trees_intersect for one path of current: the pair
\* it returns, or NoIntersection when the loop goes on.
subtree(p, c) ==
    IF Len(p) > Len(c)
    THEN IF SubSeq(p, 1, Len(c)) = c THEN <<p, c>> ELSE NoIntersection
    ELSE IF SubSeq(c, 1, Len(p)) = p THEN <<c, p>> ELSE NoIntersection

\* `for cur in current`, over what is left of the iteration
RECURSIVE trees_loop(_, _)
trees_loop(p, rest) ==
    IF rest = <<>> THEN NoIntersection
    ELSE LET r == subtree(p, abspath(Head(rest)))
         IN IF r # NoIntersection THEN r ELSE trees_loop(p, Tail(rest))

\* Volume.trees_intersect(current, proposed); cur is current in the order the
\* iteration yields it.
trees_intersect(cur, prop) == trees_loop(abspath(prop), cur)

\* The lists of at most n paths
PathLists(n) == UNION { [1..k -> RawPaths] : k \in 0..n }

\* trees_intersect has not been called yet
Pending == <<"pending">>

\* A call of trees_intersect on the arguments drawn at the start
call_trees_intersect ==
    /\ intersection = Pending
    /\ intersection' = trees_intersect(current, proposed)
    /\ UNCHANGED <<mount_points, mainPc, current, proposed>>

InitTrees ==
    /\ Init
    /\ RankIdle /\ HeartbeatIdle /\ ConnectIdle /\ HttpIdle /\ ProxyIdle /\ ReentryIdle
    /\ DestroyIdle
    /\ mount_points = {}
    /\ mainPc = "mounts"
    /\ current \in PathLists(MaxCurrent)
    /\ proposed \in RawPaths
    /\ intersection = Pending

NextTrees == call_trees_intersect /\ UNCHANGED <<session, last, asideCli>>

SpecTrees == InitTrees /\ [][NextTrees]_vars

\* ------------------------------------------------ tf.py: the mount arguments
\* The orders in which iterating a set can yield its elements
Orders(S) ==
    { f \in [1..Cardinality(S) -> S] : \A i, j \in 1..Cardinality(S) : f[i] = f[j] => i = j }

\* Mutant of passes: every mount passes the check.
passes_always(r) == TRUE

\* `if intersection is not None: ... return 1` lets a mount through
passes(r) == r = NoIntersection

\* One turn of `for m in args.m`.  colon: m holds a ':'; mount: the text
\* after the last ':'; held: location.volumes holds the key before it
\* (TaggedCollection.get raises KeyError otherwise, which leaves main);
\* order: the order in which the set mount_points is iterated.
main_mount(colon, mount, held, order) ==
    /\ mainPc = "mounts"
    /\ Cardinality(mount_points) < MaxMounts
    /\ IF ~colon
       THEN /\ mainPc' = "return 1"
            /\ UNCHANGED <<mount_points, current, proposed, intersection>>
       ELSE LET r == trees_intersect(order, mount) IN
            /\ current' = order
            /\ proposed' = mount
            /\ intersection' = r
            /\ IF ~passes(r)
               THEN /\ mainPc' = "return 1"
                    /\ UNCHANGED mount_points
               ELSE IF ~held
               THEN /\ mainPc' = "KeyError"
                    /\ UNCHANGED mount_points
               ELSE /\ mount_points' = mount_points \cup {mount}
                    /\ UNCHANGED mainPc

\* The loop is over: main goes on to launch the container
main_launch ==
    /\ mainPc = "mounts"
    /\ mainPc' = "launch"
    /\ UNCHANGED <<mount_points, current, proposed, intersection>>

\* main reaches the mount arguments only with a location that has nodes
InitCli == Init /\ nodes # <<>> /\ AsideInit

NextCli ==
    \/ \E colon \in BOOLEAN, mount \in RawPaths, held \in BOOLEAN,
          order \in Orders(mount_points) :
            main_mount(colon, mount, held, order) /\ UNCHANGED <<session, last, asideCli>>
    \/ main_launch /\ UNCHANGED <<session, last, asideCli>>

SpecCli == InitCli /\ [][NextCli]_vars

\* ----------------------------------------------------- Location.ranked_nodes
RankBias == {"cpu", "memory"}

\* node.stats[bias]
stat(node, bias) == IF bias = "cpu" THEN node.cpu ELSE node.memory

\* Mutant of place: a node goes in front of the nodes with the same stat.
place_before_ties(r, node, bias) ==
    LET k == Cardinality({i \in 1..Len(r) : stat(r[i], bias) > stat(node, bias)})
    IN SubSeq(r, 1, k) \o <<node>> \o SubSeq(r, k + 1, Len(r))

\* Where the stable descending sort puts one more node into the nodes sorted
\* before it: behind every node whose stat is not smaller.
place(r, node, bias) ==
    LET k == Cardinality({i \in 1..Len(r) : stat(r[i], bias) >= stat(node, bias)})
    IN SubSeq(r, 1, k) \o <<node>> \o SubSeq(r, k + 1, Len(r))

\* sorted(nodes, key=lambda node: node.stats[bias], reverse=True) of the first
\* n nodes: the sort is stable, also when reversed.
RECURSIVE sorted(_, _, _)
sorted(list, n, bias) ==
    IF n = 0 THEN <<>> ELSE place(sorted(list, n - 1, bias), list[n], bias)

\* Mutant of ranked_nodes: the ordering is kept in self.last_best_nodes and
\* returned again while it is there.
ranked_nodes_cached(bias) ==
    /\ IF Len(nodes) = 0
       THEN /\ last' = Outcome("ranked_nodes", 0, bias, <<>>, "ValueError", {})
            /\ UNCHANGED <<ranking, last_best_nodes>>
       ELSE /\ ranking' = IF last_best_nodes = None
                          THEN sorted(nodes, Len(nodes), bias)
                          ELSE last_best_nodes
            /\ last_best_nodes' = ranking'
            /\ last' = Outcome("ranked_nodes", 0, bias, <<>>, "ok", {})
    /\ UNCHANGED session

\* Location.ranked_nodes(bias)
ranked_nodes(bias) ==
    /\ IF Len(nodes) = 0
       THEN /\ last' = Outcome("ranked_nodes", 0, bias, <<>>, "ValueError", {})
            /\ UNCHANGED ranking
       ELSE /\ ranking' = sorted(nodes, Len(nodes), bias)
            /\ last' = Outcome("ranked_nodes", 0, bias, <<>>, "ok", {})
    /\ UNCHANGED <<session, last_best_nodes>>

\* The node lists of at most n nodes an offer can carry: distinct pks, any stats
RankLists(n) ==
    LET Nodes == { Node(pk, c, m) : pk \in NodeIds, c \in Stats, m \in Stats }
    IN UNION { { f \in [1..k -> Nodes] : \A i, j \in 1..k : f[i].pk = f[j].pk => i = j }
               : k \in 0..n }

InitRank ==
    /\ \E ns \in RankLists(MaxNodes) : AfterOffer(ns, <<>>)
    /\ AsideInit

NextRank == \E bias \in RankBias : ranked_nodes(bias) /\ UNCHANGED asideRank

SpecRank == InitRank /\ [][NextRank]_vars

\* ------------------------------------------------------ Location._heartbeat
\* `if time.time() - self.last_heartbeat < 60`
HeartbeatInterval == 60

\* The seconds that pass between two looks at the clock
Elapses == {1, 59, 60}

\* Time passes between two idle ticks of the event loop
time_passes(d) ==
    /\ now + d <= MaxTime
    /\ now' = now + d
    /\ UNCHANGED <<last_heartbeat, heartbeats>>

\* Mutant of stamp: the time of the heartbeat is not kept.
stamp_not_kept == UNCHANGED last_heartbeat

\* `self.last_heartbeat = time.time()`
stamp == last_heartbeat' = now

\* Location._heartbeat, called on an idle tick of the event loop.  Without a
\* connection `self.conn.send_cmd` raises AttributeError, after the stamp.
_heartbeat ==
    /\ IF now - last_heartbeat < HeartbeatInterval
       THEN /\ last' = Outcome("_heartbeat", 0, None, <<>>, "ok", {})
            /\ UNCHANGED <<last_heartbeat, heartbeats>>
       ELSE /\ stamp
            /\ IF conn = None
               THEN /\ last' = Outcome("_heartbeat", 0, None, <<>>, "AttributeError", {})
                    /\ UNCHANGED heartbeats
               ELSE /\ last' = Outcome("_heartbeat", 0, None, <<>>, "ok", {<<"heartbeat", 0>>})
                    /\ heartbeats' = Append(heartbeats, now)
    /\ UNCHANGED now

InitHeartbeat == Init /\ AsideInit

NextHeartbeat ==
    \/ \E d \in Elapses : time_passes(d) /\ UNCHANGED <<session, last, asideHeartbeat>>
    \/ _heartbeat /\ UNCHANGED <<session, asideHeartbeat>>

SpecHeartbeat == InitHeartbeat /\ [][NextHeartbeat]_vars

\* ------------------------------ Location.__init__ and the first resource offer
\* The construction of a Location on the caller's thread, and _resource_offer
\* on the thread of the event loop, one statement at a time.

Registries == {"endpoints", "nodes", "volumes"}

\* Mutant of offer_statements: the Location is marked ready first.
offer_statements_ready_first == <<"mark_as_ready", "endpoints", "nodes", "volumes">>

\* The statements of _resource_offer, in the order of the source
offer_statements == <<"endpoints", "nodes", "volumes", "mark_as_ready">>

\* A resource offer is delivered to the event loop: the n-th of the session
offer_arrives(domains, ns) ==
    /\ conn = "open"
    /\ offerPc = 0
    /\ offer.n < MaxOffers
    /\ offer' = [n |-> offer.n + 1, domains |-> domains, nodes |-> ns]
    /\ offerPc' = 1
    /\ UNCHANGED <<initPc, applied, session, last>>

\* The loop thread runs the next statement of _resource_offer
offer_step ==
    LET stmt == offer_statements[offerPc] IN
    /\ offerPc \in 1..Len(offer_statements)
    /\ offerPc' = IF offerPc = Len(offer_statements) THEN 0 ELSE offerPc + 1
    /\ endpoints' = IF stmt = "endpoints" THEN offer.domains ELSE endpoints
    /\ clusters' = IF stmt = "endpoints" THEN NoClusters ELSE clusters
    /\ nodes' = IF stmt = "nodes" THEN offer.nodes ELSE nodes
    /\ volumes' = IF stmt = "volumes" THEN remoteVols ELSE volumes
    /\ ready' = IF stmt = "mark_as_ready" THEN TRUE ELSE ready
    /\ applied' = IF stmt \in Registries THEN [applied EXCEPT ![stmt] = offer.n]
                  ELSE applied
    /\ last' = IF offerPc = Len(offer_statements)
               THEN Outcome("_resource_offer", 0, None, <<>>, "ok", {})
               ELSE last
    /\ UNCHANGED <<conn, tunnels, nTunnels, tcontainer, destroyCalls, nVolumes,
                   vtag, remoteVols, nClusters, published, disconnected>>
    /\ UNCHANGED <<initPc, offer>>

\* `self.wait_until_ready()` of __init__ returns, and __init__ after it
init_returns ==
    /\ initPc = "wait_until_ready"
    /\ ready
    /\ initPc' = "returned"
    /\ UNCHANGED <<offerPc, offer, applied, session, last>>

\* The caller holds the Location only when __init__ has returned
caller_has_location == initPc = "returned"

\* The session while __init__ waits at line 85: the Connection is started,
\* the registries are as the constructor made them, no offer has come.
InitConnect ==
    /\ conn = "open"
    /\ ready = FALSE
    /\ nodes = <<>>
    /\ endpoints = <<>>
    /\ clusters = NoClusters
    /\ volumes = {}
    /\ tunnels = {}
    /\ nTunnels = 0
    /\ tcontainer = [t \in TunnelIds |-> None]
    /\ destroyCalls = [t \in TunnelIds |-> 0]
    /\ nVolumes = 0
    /\ vtag = [v \in VolumeIds |-> None]
    /\ remoteVols = {}
    /\ nClusters = 0
    /\ published = {}
    /\ disconnected = FALSE
    /\ last = Outcome("__init__", 0, None, <<>>, "ok", {})
    /\ initPc = "wait_until_ready"
    /\ offerPc = 0
    /\ offer = [n |-> 0, domains |-> <<>>, nodes |-> <<>>]
    /\ applied = [r \in Registries |-> 0]
    /\ CliIdle /\ RankIdle /\ HeartbeatIdle /\ HttpIdle /\ ProxyIdle /\ ReentryIdle
    /\ DestroyIdle

NextConnect ==
    \/ \E d \in DomainLists, ns \in NodeLists : offer_arrives(d, ns) /\ UNCHANGED asideConnect
    \/ offer_step /\ UNCHANGED asideConnect
    \/ init_returns /\ UNCHANGED asideConnect
    \/ \E bias \in RankBias : caller_has_location /\ ranked_nodes(bias) /\ UNCHANGED asideRank
    \/ \E c \in Containers : caller_has_location /\ _tunnel_onto(c, "ok") /\ UNCHANGED aside

SpecConnect == InitConnect /\ [][NextConnect]_vars

\* --------------------------------------------------- Location._wait_http_200
\* The call up to its polling loop is one step, each turn of the loop another.

Loopback == "127.0.0.1"

\* What socket.gethostbyname(fqdn) gives: an address, or it raises gaierror
Resolutions == {Loopback, "10.0.0.7", "gaierror"}

\* What requests.get(url) gives in one turn: a status code, or it raises
\* requests.exceptions.ConnectionError
Responses == {"200", "404", "ConnectionError"}

\* `attempts_remaining = 60`
Attempts == 60

\* Mutant of not_loopback: every address is taken for the loopback.
not_loopback_never(a) == FALSE

\* `if addr != '127.0.0.1': raise ValueError`
not_loopback(a) == a # Loopback

\* Location._wait_http_200 from its first line to the start of the loop.
\* resolved: the outcome of gethostbyname; outcome: that of _tunnel_onto.
wait_http_200_begin(container, resolved, outcome) ==
    /\ httpPc = "idle"
    /\ addr' = resolved
    /\ IF resolved = "gaierror"
       THEN /\ httpPc' = "gaierror"
            /\ last' = Outcome("_wait_http_200", 0, container, <<>>, "gaierror", {})
            /\ outcome = "ok"
            /\ UNCHANGED <<tnl, attempts_remaining, session>>
       ELSE IF not_loopback(resolved)
       THEN /\ httpPc' = "ValueError"
            /\ last' = Outcome("_wait_http_200", 0, container, <<>>, "ValueError", {})
            /\ outcome = "ok"
            /\ UNCHANGED <<tnl, attempts_remaining, session>>
       ELSE /\ _tunnel_onto(container, outcome)
            /\ IF outcome = "ok"
               THEN /\ tnl' = nTunnels'
                    /\ attempts_remaining' = Attempts
                    /\ httpPc' = "polling"
               ELSE /\ httpPc' = "error"
                    /\ UNCHANGED <<tnl, attempts_remaining>>
    /\ UNCHANGED requests

\* One turn of `while True`: the request, and what follows it
poll(response) ==
    /\ httpPc = "polling"
    /\ requests' = requests + 1
    /\ last' = Outcome("requests.get", tnl, None, <<>>, response, {})
    /\ IF response = "200"
       THEN /\ httpPc' = "returned"
            /\ UNCHANGED attempts_remaining
       ELSE /\ attempts_remaining' = attempts_remaining - 1
            /\ httpPc' = IF attempts_remaining - 1 = 0 THEN "ValueError" ELSE "polling"
    /\ UNCHANGED <<addr, tnl, session>>

InitHttp == Init /\ AsideInit

NextHttp ==
    \/ \E c \in Containers, r \in Resolutions, o \in {"ok", "connect"} :
          wait_http_200_begin(c, r, o) /\ UNCHANGED asideHttp
    \/ \E r \in Responses : poll(r) /\ UNCHANGED asideHttp

SpecHttp == InitHttp /\ [][NextHttp]_vars

\* ------------------------- Location._tunnel_onto and the proxy events, apart
\* _tunnel_onto on the caller's thread, one statement at a time, with the
\* _from_proxy and _close_proxy events the event loop delivers meanwhile.

\* Mutant of onto_statements: the tunnel is connected, then registered.
onto_statements_connect_first == <<"connect", "register", "return">>

\* The statements of _tunnel_onto after the Tunnel is constructed:
\* `self.tunnels[tunnel.uuid] = tunnel`, the start of `tunnel.connect()`,
\* and its end with `return tunnel`.
onto_statements == <<"register", "connect", "return">>

\* The caller enters _tunnel_onto and constructs the Tunnel
onto_begin(container) ==
    /\ ontoPc = Len(onto_statements)
    /\ nTunnels < MaxTunnels
    /\ nTunnels' = nTunnels + 1
    /\ tcontainer' = [tcontainer EXCEPT ![nTunnels + 1] = container]
    /\ ontoPc' = 0
    /\ last' = Outcome("Tunnel", nTunnels + 1, container, <<>>, "ok", {})
    /\ UNCHANGED <<conn, ready, nodes, volumes, tunnels, endpoints, clusters,
                   destroyCalls, nVolumes, vtag, remoteVols, nClusters, published,
                   disconnected, connecting>>

\* The caller runs the next statement of _tunnel_onto.  fails: tunnel.connect()
\* raises instead of returning.
onto_step(fails) ==
    LET stmt == onto_statements[ontoPc + 1]
        uuid == nTunnels
    IN
    /\ ontoPc < Len(onto_statements)
    /\ fails => stmt = "return"
    /\ ontoPc' = IF fails THEN Len(onto_statements) ELSE ontoPc + 1
    /\ tunnels' = IF stmt = "register" THEN tunnels \cup {uuid} ELSE tunnels
    /\ connecting' = IF stmt = "connect" THEN connecting \cup {uuid} ELSE connecting
    /\ last' = Outcome("_tunnel_onto", uuid, tcontainer[uuid], <<>>,
                       IF fails THEN "error" ELSE stmt, {})
    /\ UNCHANGED <<conn, ready, nodes, volumes, endpoints, clusters, nTunnels,
                   tcontainer, destroyCalls, nVolumes, vtag, remoteVols, nClusters,
                   published, disconnected>>

\* Mutant of except_KeyError: the KeyError leaves the handler.
no_except(op, uuid) == Outcome(op, uuid, None, <<>>, "KeyError", {})

\* `except KeyError: logging.debug(...)`: the handler returns
except_KeyError(op, uuid) == Outcome(op, uuid, None, <<>>, "ok", {})

\* Location._from_proxy and Location._close_proxy for an event that names
\* uuid; method: the Tunnel method the event is forwarded to.
proxy_event(op, method, uuid) ==
    /\ conn = "open"
    /\ last' = IF uuid \in tunnels
               THEN Outcome(op, uuid, None, <<>>, "ok", {<<method, uuid>>})
               ELSE except_KeyError(op, uuid)
    /\ UNCHANGED session

_from_proxy(uuid) == proxy_event("_from_proxy", "tunnel.from_proxy", uuid)

_close_proxy(uuid) == proxy_event("_close_proxy", "tunnel.close_proxy", uuid)

\* The uuids an event can name: a tunnel whose connection was started, or a
\* uuid (0) no tunnel of the session ever had
EventUuids == connecting \cup {0}

\* The caller is not inside _tunnel_onto
caller_free == ontoPc = Len(onto_statements)

InitProxy == Init /\ AsideInit

NextProxy ==
    \/ \E c \in Containers : onto_begin(c) /\ UNCHANGED <<asideProxy>>
    \/ \E f \in BOOLEAN : onto_step(f) /\ UNCHANGED <<asideProxy>>
    \/ \E u \in EventUuids : _from_proxy(u) /\ UNCHANGED aside
    \/ \E u \in EventUuids : _close_proxy(u) /\ UNCHANGED aside
    \/ \E t \in TunnelIds : caller_free /\ _destroy_tunnel(t, None) /\ UNCHANGED aside
    \/ disconnect(0, 0) /\ UNCHANGED aside

SpecProxy == InitProxy /\ [][NextProxy]_vars

\* --------------------------------------- Location.disconnect, entered twice
\* disconnect() called on the main thread (the KeyboardInterrupt handler of
\* tf.py) and on the thread of the event loop (the container's termination
\* callback), one statement at a time.  dthread[th].pc is the line of
\* location.py the thread runs next.

at(th, line) == dthread[th].pc = line

\* The session variables no statement of disconnect() assigns
untouched == <<ready, volumes, nTunnels, tcontainer, nVolumes, vtag, remoteVols,
               nClusters>>

\* th calls location.disconnect()
disconnect_call(th) ==
    /\ at(th, "idle")
    /\ dthread' = [dthread EXCEPT ![th].pc = "92"]
    /\ UNCHANGED <<session, last, unpublishCalls, closeCalls>>

\* `if self.conn is None: return`
disconnect_92(th) ==
    /\ at(th, "92")
    /\ dthread' = [dthread EXCEPT ![th].pc = IF conn = None THEN "done" ELSE "95"]
    /\ last' = IF conn = None THEN Outcome("disconnect", 0, th, <<>>, "ok", {}) ELSE last
    /\ UNCHANGED <<session, unpublishCalls, closeCalls>>

\* `for endpoint in list(self.endpoints.values())`: the list is made
disconnect_95(th) ==
    /\ at(th, "95")
    /\ dthread' = [dthread EXCEPT ![th].pc = "96", ![th].endpoints = endpoints]
    /\ UNCHANGED <<session, last, unpublishCalls, closeCalls>>

\* The next endpoint of the list: `list(endpoint.clusters.values())` is made
disconnect_96(th) ==
    /\ at(th, "96")
    /\ IF dthread[th].endpoints = <<>>
       THEN dthread' = [dthread EXCEPT ![th].pc = "97"]
       ELSE dthread' = [dthread EXCEPT
                ![th].pc = "unpublish",
                ![th].clusters = InOrder(clusters[Head(dthread[th].endpoints)]),
                ![th].endpoints = Tail(dthread[th].endpoints)]
    /\ UNCHANGED <<session, last, unpublishCalls, closeCalls>>

\* `endpoint.unpublish(cluster)` for the next cluster of the list
disconnect_unpublish(th) ==
    /\ at(th, "unpublish")
    /\ IF dthread[th].clusters = <<>>
       THEN /\ dthread' = [dthread EXCEPT ![th].pc = "96"]
            /\ UNCHANGED <<clusters, published, unpublishCalls>>
       ELSE LET k == Head(dthread[th].clusters) IN
            /\ dthread' = [dthread EXCEPT ![th].clusters = Tail(dthread[th].clusters)]
            /\ unpublishCalls' = [unpublishCalls EXCEPT ![k] = Again(unpublishCalls[k])]
            /\ clusters' = [d \in Domains |-> clusters[d] \ {k}]
            /\ published' = published \ {k}
    /\ UNCHANGED <<conn, nodes, tunnels, endpoints, destroyCalls, disconnected,
                   untouched, last, closeCalls>>

\* `self.endpoints.clear()`
disconnect_97(th) ==
    /\ at(th, "97")
    /\ dthread' = [dthread EXCEPT ![th].pc = "98"]
    /\ endpoints' = <<>>
    /\ clusters' = NoClusters
    /\ UNCHANGED <<conn, nodes, tunnels, destroyCalls, published, disconnected,
                   untouched, last, unpublishCalls, closeCalls>>

\* `for tunnel in list(self.tunnels.values())`: the list is made
disconnect_98(th) ==
    /\ at(th, "98")
    /\ dthread' = [dthread EXCEPT ![th].pc = "99", ![th].tunnels = InOrder(tunnels)]
    /\ UNCHANGED <<session, last, unpublishCalls, closeCalls>>

\* `tunnel.destroy()` for the next tunnel of the list
disconnect_99(th) ==
    /\ at(th, "99")
    /\ IF dthread[th].tunnels = <<>>
       THEN /\ dthread' = [dthread EXCEPT ![th].pc = "100"]
            /\ UNCHANGED destroyCalls
       ELSE LET t == Head(dthread[th].tunnels) IN
            /\ dthread' = [dthread EXCEPT ![th].tunnels = Tail(dthread[th].tunnels)]
            /\ destroyCalls' = [destroyCalls EXCEPT ![t] = Again(destroyCalls[t])]
    /\ UNCHANGED <<conn, nodes, tunnels, endpoints, clusters, published,
                   disconnected, untouched, last, unpublishCalls, closeCalls>>

\* `self.tunnels.clear()`
disconnect_100(th) ==
    /\ at(th, "100")
    /\ dthread' = [dthread EXCEPT ![th].pc = "101"]
    /\ tunnels' = {}
    /\ UNCHANGED <<conn, nodes, endpoints, clusters, destroyCalls, published,
                   disconnected, untouched, last, unpublishCalls, closeCalls>>

\* `self.conn.disconnect()`: AttributeError when self.conn is None by now
disconnect_101(th) ==
    /\ at(th, "101")
    /\ IF conn = None
       THEN /\ dthread' = [dthread EXCEPT ![th].pc = "raised",
                                          ![th].raised = "AttributeError"]
            /\ last' = Outcome("disconnect", 0, th, <<>>, "AttributeError", {})
            /\ UNCHANGED closeCalls
       ELSE /\ dthread' = [dthread EXCEPT ![th].pc = "102"]
            /\ closeCalls' = closeCalls + 1
            /\ UNCHANGED last
    /\ UNCHANGED <<session, unpublishCalls>>

\* `self.conn = None`
disconnect_102(th) ==
    /\ at(th, "102")
    /\ dthread' = [dthread EXCEPT ![th].pc = "103"]
    /\ conn' = None
    /\ UNCHANGED <<nodes, tunnels, endpoints, clusters, destroyCalls, published,
                   disconnected, untouched, last, unpublishCalls, closeCalls>>

\* `self.nodes.clear()`, and the call returns
disconnect_103(th) ==
    /\ at(th, "103")
    /\ dthread' = [dthread EXCEPT ![th].pc = "done"]
    /\ nodes' = <<>>
    /\ disconnected' = TRUE
    /\ last' = Outcome("disconnect", 0, th, <<>>, "ok", {})
    /\ UNCHANGED <<conn, tunnels, endpoints, clusters, destroyCalls, published,
                   untouched, unpublishCalls, closeCalls>>

\* A session in use when disconnect() is first called: both domains are
\* registered, nT tunnels are connected and nC clusters are published, the
\* cluster k on the endpoint of where[k].
InUse(nT, nC, where) ==
    /\ conn = "open"
    /\ ready = TRUE
    /\ nodes = <<Node(1, 1, 2), Node(2, 2, 1)>>
    /\ endpoints = <<dom_my, dom_bmy>>
    /\ clusters = [d \in Domains |-> {k \in 1..nC : where[k] = d}]
    /\ volumes = {}
    /\ tunnels = 1..nT
    /\ nTunnels = nT
    /\ tcontainer = [t \in TunnelIds |-> IF t <= nT THEN "c1" ELSE None]
    /\ destroyCalls = [t \in TunnelIds |-> 0]
    /\ nVolumes = 0
    /\ vtag = [v \in VolumeIds |-> None]
    /\ remoteVols = {}
    /\ nClusters = nC
    /\ published = 1..nC
    /\ disconnected = FALSE
    /\ last = Outcome("init", 0, None, <<>>, "ok", {})

InitReentry ==
    /\ \E nT \in 0..MaxTunnels, nC \in 0..MaxClusters, where \in [ClusterIds -> Domains] :
          InUse(nT, nC, where)
    /\ AsideInit

NextReentry ==
    \/ \E th \in Threads : disconnect_call(th) /\ UNCHANGED asideReentry
    \/ \E th \in Threads : disconnect_92(th) /\ UNCHANGED asideReentry
    \/ \E th \in Threads : disconnect_95(th) /\ UNCHANGED asideReentry
    \/ \E th \in Threads : disconnect_96(th) /\ UNCHANGED asideReentry
    \/ \E th \in Threads : disconnect_unpublish(th) /\ UNCHANGED asideReentry
    \/ \E th \in Threads : disconnect_97(th) /\ UNCHANGED asideReentry
    \/ \E th \in Threads : disconnect_98(th) /\ UNCHANGED asideReentry
    \/ \E th \in Threads : disconnect_99(th) /\ UNCHANGED asideReentry
    \/ \E th \in Threads : disconnect_100(th) /\ UNCHANGED asideReentry
    \/ \E th \in Threads : disconnect_101(th) /\ UNCHANGED asideReentry
    \/ \E th \in Threads : disconnect_102(th) /\ UNCHANGED asideReentry
    \/ \E th \in Threads : disconnect_103(th) /\ UNCHANGED asideReentry

SpecReentry == InitReentry /\ [][NextReentry]_vars

\* ------------------------------------------- the thread of each operation
\* The handlers Location registers with the connection (`_commands`): the
\* event loop calls them on its own thread.  Every other operation of the
\* session is called by the user's code, on the thread of the caller.
LoopHandlers == {"_resource_offer", "_update_stats", "_from_proxy", "_close_proxy"}

\* self.nodes, self.volumes, self.tunnels and self.endpoints
written_registries == <<nodes, volumes, tunnels, endpoints>>

\* ------------------------------- Location._resource_offer, offer after offer
\* The whole handler at each offer, from the first one __init__ waits for,
\* with the caller's operations on volumes and endpoints between the offers.

\* The event loop delivers the next resource offer and runs _resource_offer
\* on it; the payload names the domains, the nodes and the volumes the
\* location holds for the user (remoteVols) at that time.
resource_offer_event(domains, ns) ==
    /\ offerPc = 0
    /\ offer.n < MaxOffers
    /\ _resource_offer(domains, ns)
    /\ offer' = [n |-> offer.n + 1, domains |-> domains, nodes |-> ns]
    /\ applied' = [r \in Registries |-> offer.n + 1]
    /\ UNCHANGED <<initPc, offerPc>>

\* A volume of the user is destroyed from outside this session, so the
\* next offer does not name it
volume_destroyed_elsewhere(v) ==
    /\ v \in remoteVols
    /\ remoteVols' = remoteVols \ {v}
    /\ UNCHANGED <<conn, ready, nodes, volumes, tunnels, endpoints, clusters,
                   nTunnels, tcontainer, destroyCalls, nVolumes, vtag, nClusters,
                   published, disconnected, last>>

NextOffer ==
    \/ \E d \in DomainLists, ns \in NodeLists :
          resource_offer_event(d, ns) /\ UNCHANGED asideConnect
    \/ init_returns /\ UNCHANGED asideConnect
    \/ \E tag \in Tags \cup {None} :
          caller_has_location /\ create_volume(tag) /\ UNCHANGED aside
    \/ \E v \in VolumeIds : caller_has_location /\ destroy_volume(v) /\ UNCHANGED aside
    \/ \E f \in FQDNs : caller_has_location /\ tf_publish(f) /\ UNCHANGED aside
    \/ \E v \in VolumeIds : volume_destroyed_elsewhere(v) /\ UNCHANGED aside

SpecOffer == InitConnect /\ [][NextOffer]_vars

\* ------------------------------------------------- Location._update_stats
\* The update_stats events and the resource offers the event loop handles,
\* and the ranked_nodes calls made between them.

\* `msg.params['node'] in self.nodes`
known(pk) == \E i \in 1..Len(nodes) : nodes[i].pk = pk

\* The stats an update_stats event carries: a score for cpu, for memory, or
\* for both
StatBlobs == UNION { [keys -> Stats] : keys \in SUBSET RankBias \ {{}} }

\* Node._update_stats(stats): the stats of the event are merged into those
\* the node holds
node_update_stats(node, blob) ==
    Node(node.pk,
         IF "cpu" \in DOMAIN blob THEN blob["cpu"] ELSE node.cpu,
         IF "memory" \in DOMAIN blob THEN blob["memory"] ELSE node.memory)

\* Mutant of _update_stats: an unknown node is added to the registry.
_update_stats_creates(pk, blob) ==
    /\ conn = "open"
    /\ IF ~known(pk)
       THEN /\ nodes' = Append(nodes, node_update_stats(Node(pk, 1, 1), blob))
            /\ UNCHANGED last_best_nodes
       ELSE /\ nodes' = [i \in 1..Len(nodes) |->
                           IF nodes[i].pk = pk THEN node_update_stats(nodes[i], blob)
                           ELSE nodes[i]]
            /\ last_best_nodes' = None
    /\ last' = Outcome("_update_stats", pk, None, <<>>, "ok", {})
    /\ UNCHANGED <<conn, ready, volumes, tunnels, endpoints, clusters, nTunnels,
                   tcontainer, destroyCalls, nVolumes, vtag, remoteVols, nClusters,
                   published, disconnected, ranking>>

\* Location._update_stats for an event that names the node pk
_update_stats(pk, blob) ==
    /\ conn = "open"
    /\ IF ~known(pk)
       THEN UNCHANGED <<nodes, last_best_nodes>>
       ELSE /\ nodes' = [i \in 1..Len(nodes) |->
                           IF nodes[i].pk = pk THEN node_update_stats(nodes[i], blob)
                           ELSE nodes[i]]
            /\ last_best_nodes' = None
    /\ last' = Outcome("_update_stats", pk, None, <<>>, "ok", {})
    /\ UNCHANGED <<conn, ready, volumes, tunnels, endpoints, clusters, nTunnels,
                   tcontainer, destroyCalls, nVolumes, vtag, remoteVols, nClusters,
                   published, disconnected, ranking>>

NextStats ==
    \/ \E pk \in NodeIds, blob \in StatBlobs : _update_stats(pk, blob) /\ UNCHANGED asideRank
    \/ \E d \in DomainLists, ns \in NodeLists : _resource_offer(d, ns) /\ UNCHANGED aside
    \/ \E bias \in RankBias : ranked_nodes(bias) /\ UNCHANGED asideRank

SpecStats == InitSession /\ [][NextStats]_vars

\* ------------------ the destruction of tunnels against the proxy events
\* _destroy_tunnel and disconnect() on the main thread, one statement at a
\* time, with the _from_proxy and _close_proxy events the event loop
\* delivers on its own thread meanwhile.

\* The main thread is in neither call
main_free ==
    /\ destroying = 0
    /\ at("main", "idle") \/ at("main", "done")

\* _destroy_tunnel up to `tunnel.destroy()`: the guard, then the call
destroy_259(tunnel, container) ==
    /\ main_free
    /\ tunnel \in 1..nTunnels
    /\ IF guard_fails(tunnel, container)
       THEN /\ last' = Outcome("_destroy_tunnel", tunnel, container, <<>>, "ValueError", {})
            /\ UNCHANGED <<destroyCalls, destroying>>
       ELSE /\ destroyCalls' = [destroyCalls EXCEPT ![tunnel] = Again(@)]
            /\ destroying' = tunnel
            /\ UNCHANGED last
    /\ UNCHANGED <<conn, ready, nodes, volumes, tunnels, endpoints, clusters, nTunnels,
                   tcontainer, nVolumes, vtag, remoteVols, nClusters, published,
                   disconnected>>

\* `del self.tunnels[tunnel.uuid]`, and the call returns
destroy_260 ==
    /\ destroying # 0
    /\ tunnels' = tunnels \ {destroying}
    /\ last' = Outcome("_destroy_tunnel", destroying, None, <<>>,
                       IF destroying \in tunnels THEN "ok" ELSE "KeyError",
                       {<<"tunnel.destroy", destroying>>})
    /\ destroying' = 0
    /\ UNCHANGED <<conn, ready, nodes, volumes, endpoints, clusters, nTunnels,
                   tcontainer, destroyCalls, nVolumes, vtag, remoteVols, nClusters,
                   published, disconnected>>

\* The next statement of a disconnect() call made by th
disconnect_step(th) ==
    \/ disconnect_call(th)
    \/ disconnect_92(th)
    \/ disconnect_95(th)
    \/ disconnect_96(th)
    \/ disconnect_unpublish(th)
    \/ disconnect_97(th)
    \/ disconnect_98(th)
    \/ disconnect_99(th)
    \/ disconnect_100(th)
    \/ disconnect_101(th)
    \/ disconnect_102(th)
    \/ disconnect_103(th)

NextDestroy ==
    \/ \E t \in TunnelIds, c \in Containers \cup {None} :
          destroy_259(t, c) /\ UNCHANGED <<asideDestroy>>
    \/ destroy_260 /\ UNCHANGED <<asideDestroy>>
    \/ destroying = 0 /\ disconnect_step("main") /\ UNCHANGED asideReentry
    \/ \E u \in TunnelIds : u <= nTunnels /\ _from_proxy(u) /\ UNCHANGED aside
    \/ \E u \in TunnelIds : u <= nTunnels /\ _close_proxy(u) /\ UNCHANGED aside

SpecDestroy == InitReentry /\ [][NextDestroy]_vars

\* ================================================================= claims

\* C1: _destroy_tunnel with a container guard that is not the tunnel's
\* container raises, invokes no tunnel.destroy() and leaves the tunnel
\* registry as it was; with the owning container, or with no guard, it
\* invokes tunnel.destroy() once and the registry loses exactly that tunnel.
C1_DestroyTunnelGuard ==
    [][last'.op = "_destroy_tunnel" =>
        LET t == last'.a
            g == last'.s
        IN IF g # None /\ tcontainer[t] # g
           THEN /\ last'.result = "ValueError"
                /\ last'.calls = {}
                /\ tunnels' = tunnels
                /\ destroyCalls' = destroyCalls
           ELSE /\ tunnels' = tunnels \ {t}
                /\ destroyCalls' = [destroyCalls EXCEPT ![t] = Again(@)]
                /\ last'.calls = {<<"tunnel.destroy", t>>}]_vars

\* C1 witness: a guarded destroy of a registered tunnel has just failed, while
\* another tunnel was destroyed and removed earlier.
C1_Witness ==
    /\ last.op = "_destroy_tunnel"
    /\ last.result = "ValueError"
    /\ last.a \in tunnels
    /\ destroyCalls[last.a] = 0
    /\ \E t \in 1..nTunnels : t \notin tunnels /\ destroyCalls[t] = 1

\* C2: tunnel.destroy() is invoked at most once on any tunnel, and a destroy
\* request for a tunnel already destroyed and removed from the registry
\* returns without an error, invokes nothing and leaves the registry as it was.
C2_DestroyedExactlyOnce ==
    [][/\ \A t \in TunnelIds : destroyCalls'[t] <= 1
       /\ (/\ last'.op = "_destroy_tunnel"
           /\ last'.a \notin tunnels
           /\ destroyCalls[last'.a] >= 1
           /\ last'.result # "ValueError")
          => /\ last'.result = "ok"
             /\ last'.calls = {}
             /\ tunnels' = tunnels
             /\ destroyCalls' = destroyCalls]_vars

\* C3: a tunnel creation whose tunnel.connect() raises leaves the tunnel
\* registry equal to what it was before the call.
C3_FailedConnectUnregisters ==
    [][(/\ last'.op = "_tunnel_onto"
        /\ last'.result = "error"
        /\ last'.calls # {})
       => tunnels' = tunnels]_vars

\* C4: once a disconnect() has run to its end, a further disconnect() makes
\* no call (no unpublish, no tunnel.destroy, no conn.disconnect), returns
\* normally and changes nothing of the session.
C4_DisconnectIdempotent ==
    [][disconnected /\ last'.op = "disconnect" =>
        /\ last'.calls = {}
        /\ last'.result = "ok"
        /\ session' = session]_vars

\* C4 witness: a second disconnect() has just returned, on a session that
\* had a tunnel and whose first disconnect() closed the connection.
C4_Witness ==
    /\ disconnected
    /\ last.op = "disconnect"
    /\ last.calls = {}
    /\ nTunnels > 0
    /\ conn = None

\* C5: after a disconnect() that returned, the node, volume, tunnel and
\* endpoint registries are all empty.
C5_RegistriesEmptyAfterDisconnect ==
    (last.op = "disconnect" /\ last.result = "ok" /\ <<"conn.disconnect", 0>> \in last.calls)
        => /\ nodes = <<>>
           /\ volumes = {}
           /\ tunnels = {}
           /\ endpoints = <<>>

\* C6: a disconnect() of a connected session goes on past a failing
\* endpoint.unpublish() or tunnel.destroy(): it still invokes destroy on every
\* registered tunnel, closes the connection and clears the handle.
C6_DisconnectBestEffort ==
    [][last'.op = "disconnect" /\ conn # None =>
        /\ \A t \in tunnels : <<"tunnel.destroy", t>> \in last'.calls
        /\ <<"conn.disconnect", 0>> \in last'.calls
        /\ conn' = None]_vars

\* C7: a disconnect() that ran to its end leaves no cluster published that
\* the session published and did not unpublish.
C7_DisconnectUnpublishesAll ==
    (last.op = "disconnect" /\ last.result = "ok" /\ <<"conn.disconnect", 0>> \in last.calls)
        => published = {}

\* C8: after a disconnect() has run to its end, ranked_nodes, create_volume,
\* destroy_volume, all_volumes, volume, endpoint_for, tunnel creation,
\* snapshot and rollback all raise, send nothing and add nothing to a registry.
C8_OperationsFailAfterDisconnect ==
    [][/\ disconnected' =>
            /\ ranked_nodes_raises'
            /\ all_volumes_raises'
            /\ \A key \in 1..nVolumes' : volume_raises(key)'
            /\ \A fqdn \in FQDNs : endpoint_for_raises(fqdn)'
       /\ (/\ disconnected
           /\ last'.op \in {"create_volume", "destroy_volume", "_tunnel_onto",
                            "snapshot", "rollback"})
          => /\ last'.result # "ok"
             /\ last'.calls = {}
             /\ registries' = registries]_vars

\* C9: a create_volume that raises leaves the volume registry as it was; a
\* create_volume with a tag that a registered volume already carries raises;
\* and the registry never holds two volumes with one tag.
C9_FailedCreateLeavesRegistry ==
    [][last'.op = "create_volume" =>
        /\ last'.result # "ok" => volumes' = volumes
        /\ (last'.s # None /\ \E v \in volumes : vtag[v] = last'.s)
              => last'.result # "ok"
        /\ \A tag \in Tags :
              Cardinality({v \in volumes' : vtag'[v] = tag}) <= 1]_vars

\* C9 witness: a second create_volume with the tag of a registered volume has
\* just been rejected by the remote.
C9_Witness ==
    /\ last.op = "create_volume"
    /\ last.result = "RemoteError"
    /\ Cardinality({v \in volumes : vtag[v] = last.s}) = 1

\* C10: destroy_volume of a Volume that is not in the volume registry raises
\* without sending anything and leaves the registry as it was; for a
\* registered volume the entry goes only when the remote call succeeded.
C10_DestroyUnknownVolumeLocal ==
    [][last'.op = "destroy_volume" /\ last'.a # 0 =>
        /\ last'.a \notin volumes =>
              /\ last'.result # "ok"
              /\ last'.calls = {}
              /\ volumes' = volumes
        /\ (last'.a \in volumes /\ volumes' # volumes) =>
              /\ last'.result = "ok"
              /\ <<"destroy_volume", last'.a>> \in last'.calls]_vars

\* The non-empty components of a normalised path, and its root
parts(x) == SelectSeq(split(x, "/"), LAMBDA c : c # <<>>)

root(x) == IF startswith(x, <<"/", "/">>) THEN 2 ELSE 1

\* Directory x is directory y or lies below it
Within(x, y) ==
    /\ root(x) = root(y)
    /\ Len(parts(y)) <= Len(parts(x))
    /\ SubSeq(parts(x), 1, Len(parts(y))) = parts(y)

Nested(x, y) == Within(x, y) \/ Within(y, x)

\* C11: the mount points main has accepted never hold two paths of which,
\* once normalised, one is the other or lies below it; a mount is added only
\* in the loop, only when trees_intersect returned None for it, and a mount
\* that is nested with an accepted one makes main return 1 with the accepted
\* set as it was.
C11_MountsNeverNest ==
    [][ /\ \A x, y \in mount_points' :
              x # y => ~Nested(abspath(x), abspath(y))
        /\ mount_points' # mount_points
              => /\ mainPc = "mounts"
                 /\ intersection' = NoIntersection
                 /\ mount_points' = mount_points \cup {proposed'}
        /\ (mainPc = "mounts" /\ mainPc' \in {"mounts", "KeyError"} /\ cliVars' # cliVars)
              => \A x \in mount_points : ~Nested(abspath(x), abspath(proposed'))
        /\ intersection' # NoIntersection => mainPc' = "return 1"
      ]_vars

\* Two mounts were accepted and a third, nested with one of them, ended main
C11_Witness ==
    /\ mainPc = "return 1"
    /\ Cardinality(mount_points) = 2
    /\ intersection # NoIntersection
    /\ \E x \in mount_points : Nested(abspath(x), abspath(proposed))

\* C12: trees_intersect reports a conflict exactly when the normalised
\* proposed path equals a normalised path of current, is a string prefix of
\* one or has one as a string prefix; it then returns the longer and the
\* shorter path of the first such path of current and the proposed one, and
\* None when there is no such path; current is left as it was.
C12_TreesIntersect ==
    intersection # Pending =>
        LET p == abspath(proposed)
            hits == { i \in 1..Len(current) :
                        \/ startswith(abspath(current[i]), p)
                        \/ startswith(p, abspath(current[i])) }
        IN IF hits = {}
           THEN intersection = NoIntersection
           ELSE LET c == abspath(current[Min(hits)]) IN
                /\ intersection \in { <<p, c>>, <<c, p>> }
                /\ Len(intersection[1]) >= Len(intersection[2])
                /\ startswith(intersection[1], intersection[2])

\* Two paths of current conflict with the proposed path, which is the
\* shorter one, and the pair names the first of them
C12_Witness ==
    /\ intersection \notin {Pending, NoIntersection}
    /\ Len(current) = 2
    /\ abspath(current[1]) # abspath(current[2])
    /\ startswith(abspath(current[1]), abspath(proposed))
    /\ startswith(abspath(current[2]), abspath(proposed))
    /\ intersection = <<abspath(current[1]), abspath(proposed)>>

\* C13: with at least one node and either bias, ranked_nodes returns every
\* node of the registry exactly once, the chosen stat never increasing along
\* the list and nodes with equal stats in the order of the registry; the
\* call changes no node, no stat and no registry.
C13_RankedStableDescending ==
    [][last'.op = "ranked_nodes" =>
        /\ session' = session
        /\ Len(nodes) > 0 =>
            LET r == ranking'
                bias == last'.s
                pos(n) == CHOOSE i \in 1..Len(nodes) : nodes[i] = n
            IN /\ last'.result = "ok"
               /\ Len(r) = Len(nodes)
               /\ \A i \in 1..Len(nodes) : \E j \in 1..Len(r) : r[j] = nodes[i]
               /\ \A i, j \in 1..Len(r) : i < j =>
                     \/ stat(r[i], bias) > stat(r[j], bias)
                     \/ /\ stat(r[i], bias) = stat(r[j], bias)
                        /\ pos(r[i]) < pos(r[j])
      ]_vars

\* Three nodes were ranked, two of them with the same stat, and the best
\* node was not the first of the registry
C13_Witness ==
    /\ last.op = "ranked_nodes"
    /\ last.result = "ok"
    /\ Len(ranking) = 3
    /\ ranking[1] # nodes[1]
    /\ \E i, j \in 1..3 : i # j /\ stat(nodes[i], last.s) = stat(nodes[j], last.s)

\* What C14 says of the answer r of endpoint_for(f)
FirstRegisteredSuffix(f, r) ==
    IF \E i \in 1..Len(endpoints) : endswith(f, endpoints[i])
    THEN \E i \in 1..Len(endpoints) :
             /\ r = endpoints[i]
             /\ endswith(f, endpoints[i])
             /\ \A j \in 1..(i - 1) : ~endswith(f, endpoints[j])
    ELSE r = None

\* C14: endpoint_for(fqdn) answers with the first registered endpoint whose
\* domain is a string suffix of fqdn, whatever longer domain matches later
\* in the registry; when no domain matches it fails with ValueError and the
\* session is as it was.
C14_EndpointForFirstSuffix ==
    [][ /\ \A f \in FQDNs : FirstRegisteredSuffix(f, endpoint_for(f))
        /\ last'.op = "endpoint_for" =>
              /\ last'.result = "ValueError"
              /\ \A i \in 1..Len(endpoints) : ~endswith(last'.fqdn, endpoints[i])
              /\ session' = session
        /\ last'.op = "publish" =>
              /\ FirstRegisteredSuffix(last'.fqdn, endpoint_for(last'.fqdn))
              /\ last'.a \in clusters'[endpoint_for(last'.fqdn)]
      ]_vars

\* a.b.my was published on my, registered before the longer b.my
C14_Witness ==
    /\ endpoints = <<dom_my, dom_bmy>>
    /\ last.op = "publish"
    /\ last.fqdn = <<"a", ".", "b", ".", "m", "y">>
    /\ last.a \in clusters[dom_my]

\* Every heartbeat of the history h came at least an interval after the one
\* before it, the first one after the time the session was made (0)
SpacedOut(h) ==
    \A i \in 1..Len(h) : h[i] - (IF i = 1 THEN 0 ELSE h[i - 1]) >= HeartbeatInterval

\* C15: an idle tick sends a heartbeat exactly when 60 seconds or more have
\* passed since the stamp of the previous heartbeat (or of the making of the
\* session), and then sets the stamp to the time of the tick; a tick before
\* that sends nothing and leaves the stamp; so no two heartbeats are ever
\* less than 60 seconds apart.
C15_HeartbeatRateLimited ==
    [][ /\ (last'.op = "_heartbeat" /\ now' = now) =>
              IF now - last_heartbeat >= 60
              THEN /\ last'.calls = {<<"heartbeat", 0>>}
                   /\ last_heartbeat' = now
                   /\ heartbeats' = Append(heartbeats, now)
              ELSE /\ last'.calls = {}
                   /\ last_heartbeat' = last_heartbeat
                   /\ heartbeats' = heartbeats
        /\ SpacedOut(heartbeats')
      ]_vars

\* Two heartbeats were sent and a later tick, too early for a third, sent
\* nothing
C15_Witness ==
    /\ Len(heartbeats) = 2
    /\ last.op = "_heartbeat"
    /\ last.calls = {}
    /\ now > heartbeats[2]
    /\ last_heartbeat = heartbeats[2]

\* Every registry holds what a resource offer assigned to it
AllFromAnOffer == \A r \in Registries : applied[r] >= 1

\* C16: the Location is ready only when a resource offer has been assigned
\* to each of endpoints, nodes and volumes, __init__ returns only when it is
\* ready, and a caller's ranked_nodes or _tunnel_onto never starts in a state
\* where some of the three registries come from an offer and others are
\* still as the constructor left them.
C16_ReadyAfterWholeOffer ==
    [][ /\ ready' => AllFromAnOffer'
        /\ initPc' = "returned" => ready' /\ AllFromAnOffer'
        /\ last'.op \in {"ranked_nodes", "_tunnel_onto"} =>
              /\ initPc = "returned"
              /\ AllFromAnOffer
      ]_vars

\* A caller ranked the nodes of the first offer after __init__ returned
C16_Witness ==
    /\ last.op = "ranked_nodes"
    /\ last.result = "ok"
    /\ initPc = "returned"
    /\ offer.n = 1
    /\ ranking # <<>>

\* C17: when the name does not resolve to 127.0.0.1, _wait_http_200 fails at
\* once: no tunnel is made or registered and no HTTP request is sent.  When
\* it does, the call makes at most 60 requests, returns its tunnel at the
\* first response with status 200, and fails when the 60th request was not
\* answered with 200.
C17_WaitHttp200Bounded ==
    [][ /\ requests' <= 60
        /\ (httpPc = "idle" /\ httpPc' # "idle" /\ addr' # "127.0.0.1") =>
              /\ httpPc' \in {"ValueError", "gaierror"}
              /\ <<tunnels', nTunnels', requests'>> = <<tunnels, nTunnels, 0>>
        /\ addr' # "127.0.0.1" => requests' = 0 /\ tnl' = 0
        /\ last'.op = "requests.get" =>
              /\ httpPc = "polling"
              /\ httpPc' = IF last'.result = "200" THEN "returned"
                           ELSE IF requests' = 60 THEN "ValueError"
                           ELSE "polling"
              /\ httpPc' = "returned" => tnl' \in tunnels'
              /\ requests' = requests + 1
      ]_vars

\* The name resolved to the loopback and the 60th request failed as well
C17_Witness ==
    /\ addr = Loopback
    /\ httpPc = "ValueError"
    /\ requests = 60
    /\ last.result # "200"

ProxyOps == {"_from_proxy", "_close_proxy"}

\* C18: a tunnel is in the registry when its connection is started, and
\* stays there until tunnel.destroy() is invoked on it; so a from_proxy or
\* close_proxy event that names it and comes after the connection was
\* started and before its destruction finds the tunnel and is forwarded to
\* it.
C18_RegisteredBeforeConnect ==
    [][ /\ \A t \in connecting' : destroyCalls'[t] = 0 => t \in tunnels'
        /\ (/\ last'.op \in ProxyOps
            /\ last'.a \in connecting
            /\ destroyCalls[last'.a] = 0)
              => /\ last'.result = "ok"
                 /\ \E m \in {"tunnel.from_proxy", "tunnel.close_proxy"} :
                       last'.calls = {<<m, last'.a>>}
      ]_vars

\* An event was forwarded to a tunnel whose connect() had not returned yet
C18_Witness ==
    /\ last.op \in ProxyOps
    /\ last.a = nTunnels
    /\ last.calls # {}
    /\ ontoPc = 2
    /\ destroyCalls[last.a] = 0

\* C19: a from_proxy or close_proxy event for a uuid that is not in the
\* tunnel registry ends without an error and without a call on any tunnel,
\* and leaves the session as it was; a close_proxy event for a registered
\* tunnel is forwarded to it and the tunnel stays registered.
C19_UnknownProxySwallowed ==
    [][last'.op \in ProxyOps =>
        /\ last'.result = "ok"
        /\ session' = session
        /\ last'.a \notin tunnels => last'.calls = {}
        /\ (last'.op = "_close_proxy" /\ last'.a \in tunnels) =>
              /\ last'.calls = {<<"tunnel.close_proxy", last'.a>>}
              /\ last'.a \in tunnels'
      ]_vars

\* A close_proxy event came for a tunnel that had been destroyed and removed
C19_Witness ==
    /\ last.op = "_close_proxy"
    /\ last.a \in connecting
    /\ last.a \notin tunnels
    /\ last.calls = {}
    /\ last.result = "ok"

\* C20: when a second disconnect() starts while a first one is under way,
\* the two calls together unpublish each cluster at most once, destroy each
\* tunnel at most once, close the transport at most once, and neither call
\* fails on the handle the other has cleared.
C20_DisconnectReentrant ==
    /\ \A k \in ClusterIds : unpublishCalls[k] <= 1
    /\ \A t \in TunnelIds : destroyCalls[t] <= 1
    /\ closeCalls <= 1
    /\ \A th \in Threads : dthread[th].raised = None

\* C21: the node, volume, tunnel and endpoint registries are written only on
\* the thread of the event loop: a step that changes one of them is the work
\* of a handler the event loop runs, never of create_volume, destroy_volume,
\* _tunnel_onto, _destroy_tunnel or disconnect on the caller's thread.
C21_RegistriesWrittenOnLoopThread ==
    [][written_registries' # written_registries => last'.op \in LoopHandlers]_vars

\* C22: every resource offer leaves the endpoint, node and volume registries
\* holding exactly what its payload names, whatever they held before (the
\* endpoints are new objects, with no cluster), and leaves the session
\* ready; readiness changes at the first offer only, and only an offer
\* changes it, so it never goes back to false.
C22_OfferReplacesRegistries ==
    [][ /\ offer'.n # offer.n =>
            /\ last'.op = "_resource_offer"
            /\ endpoints' = offer'.domains
            /\ clusters' = NoClusters
            /\ nodes' = offer'.nodes
            /\ volumes' = remoteVols
            /\ ready'
            /\ (ready' # ready) <=> (offer'.n = 1)
        /\ ready => ready'
        /\ ready' # ready => offer'.n # offer.n
      ]_vars

\* A later offer came to a ready session that had published a cluster and
\* held a volume the payload did not name: neither is in the registries
C22_Witness ==
    /\ last.op = "_resource_offer"
    /\ offer.n >= 2
    /\ ready
    /\ nVolumes >= 1
    /\ volumes = {}
    /\ published # {}
    /\ clusters = NoClusters
    /\ endpoints = offer.domains
    /\ nodes = offer.nodes

\* The nodes of list, largest stat of bias first
Descending(list, bias) ==
    \A i, j \in 1..Len(list) : i < j => stat(list[i], bias) >= stat(list[j], bias)

\* C23: the ranking is never stale: a ranked_nodes call returns the nodes
\* the registry holds when it is made, with the stats the latest
\* update_stats event or resource offer left them, largest first; and after
\* an update_stats event for a known node and after a resource offer, no
\* ordering made earlier is kept in the cache.
C23_RankingNeverStale ==
    [][ /\ (last'.op = "ranked_nodes" /\ last'.result = "ok") =>
              /\ Len(ranking') = Len(nodes)
              /\ \A i \in 1..Len(nodes) : \E j \in 1..Len(ranking') : ranking'[j] = nodes[i]
              /\ Descending(ranking', last'.s)
        /\ (last'.op = "_update_stats" /\ known(last'.a)) => last_best_nodes' = None
        /\ last'.op = "_resource_offer" => last_best_nodes' = None
      ]_vars

\* ranked_nodes(memory) puts node 2 first: every offer gives node 1 the
\* larger memory, so an update_stats event has raised the memory of node 2
\* since the last offer, and the call made after it shows it
C23_Witness ==
    /\ last.op = "ranked_nodes"
    /\ last.s = "memory"
    /\ last.result = "ok"
    /\ Len(ranking) = 2
    /\ ranking[1].pk = 2
    /\ ranking[1].memory > ranking[2].memory
    /\ ranking[2] = nodes[1]

\* C24: an update_stats event that names a node id the registry does not
\* hold changes nothing: no node is made, no stats change, the cache of the
\* ranking is left alone, and the handler returns without an error.  One
\* that names a known node changes no other node, and the registry holds
\* the same node ids, in the same order, after it.
C24_UnknownNodeIgnored ==
    [][last'.op = "_update_stats" =>
        /\ last'.result = "ok"
        /\ Len(nodes') = Len(nodes)
        /\ \A i \in 1..Len(nodes) :
              /\ nodes'[i].pk = nodes[i].pk
              /\ nodes[i].pk # last'.a => nodes'[i] = nodes[i]
        /\ ~known(last'.a) => (session' = session /\ rankVars' = rankVars)
        /\ <<conn, ready, volumes, tunnels, endpoints, clusters>>'
              = <<conn, ready, volumes, tunnels, endpoints, clusters>>
      ]_vars

\* An update_stats event named node 3 when the registry held nodes 1 and 2
C24_Witness ==
    /\ last.op = "_update_stats"
    /\ last.result = "ok"
    /\ last.a = 3
    /\ Len(nodes) = 2
    /\ \A i \in 1..Len(nodes) : nodes[i].pk # 3

\* C25: a from_proxy or close_proxy event is never forwarded to a tunnel on
\* which destroy() has been invoked, be it by _destroy_tunnel or by
\* disconnect: an event that names such a tunnel, delivered before the
\* tunnel has left the registry, calls nothing on it.
C25_NoEventAfterDestroy ==
    [][(/\ last'.op \in ProxyOps
        /\ UNCHANGED <<session, reentryVars, destroyVars>>
        /\ destroyCalls[last'.a] > 0)
          => last'.calls = {}
      ]_vars

====
